---- MODULE Spec2Model ----
(***************************************************************************)
(* betternews: nested comment threads with denormalised counters and       *)
(* upvote toggling (server/routes: commentsRouter, postRouter).            *)
(*                                                                         *)
(* Every request handler is a process that runs one awaited SQL statement  *)
(* per step.  Statements issued through a transaction handle (tx) are      *)
(* buffered in txw[p] and become visible to other processes when the       *)
(* transaction callback returns (Commit); a thrown HTTPException discards  *)
(* them (Rollback).  An UPDATE takes the row lock of the row it changes    *)
(* and keeps it until the transaction ends.  Every other statement reads   *)
(* the committed tables (READ COMMITTED, the storage engine's default);    *)
(* the post upvote's select runs on db, not on tx, and reads them too.     *)
(* The tables declare no unique constraint and no foreign key, so an       *)
(* insert never fails.  Id 0 stands for null / undefined.                  *)
(***************************************************************************)
EXTENDS Integers, FiniteSets, Sequences, TLC

\* ---------------------------------------------------------------- bounds
MaxPosts == 2
MaxComments == 4
MaxPostUpvotes == 3
MaxCommentUpvotes == 3
MaxRows == 5
MaxPage == 2
MaxLimit == 2

Procs == {"r1", "r2"}
Users == {"u1", "u2"}
Authors == {"u1"}
NoUser == "null"
NULL == 0

PostIds == 1..MaxPosts
CommentIds == 1..MaxComments

VARIABLES
  posts,            \* committed posts rows: id -> [points, commentCount]
  comments,         \* committed comments rows: id -> row
  postUpvotes,      \* committed post_upvote rows
  commentUpvotes,   \* committed comments_post_upvote rows
  serial,           \* last value handed out by each serial id sequence
  pc,               \* each handler's position
  req,              \* each handler's request and local variables
  txw,              \* each handler's transaction: buffered writes
  locks,            \* each handler's row locks
  resp,             \* each handler's response
  mon,              \* history: the toggle pair each handler is completing
  calls,            \* history: committed comment creations per post
  rd                \* each read handler's request and response

db == <<posts, comments, postUpvotes, commentUpvotes>>
vars == <<posts, comments, postUpvotes, commentUpvotes, serial, pc, req, txw,
          locks, resp, mon, calls, rd>>

\* ---------------------------------------------------------------- tables
\* posts row as inserted by createPost (points and commentCount default 0)
NewPost == [points |-> 0, commentCount |-> 0]

\* comments row as inserted: depth, commentCount, points default to 0
NewComment(id, userId, postId, parentCommentId, depth) ==
  [id |-> id, userId |-> userId, postId |-> postId,
   parentCommentId |-> parentCommentId, depth |-> depth,
   commentCount |-> 0, points |-> 0]

NewPostUpvote(id, userId, postId) ==
  [id |-> id, userId |-> userId, postId |-> postId]

NewCommentUpvote(id, userId, commentId) ==
  [id |-> id, userId |-> userId, commentId |-> commentId]

\* ---------------------------------------------------------------- handlers
NoReq == [op |-> "none", id |-> 0, user |-> NoUser, existing |-> 0,
          pointsChange |-> 1, updated |-> 0, parent |-> 0, parentPostId |-> 0,
          parentDepth |-> 0, comment |-> 0]

NoTx == [post |-> 0, postPoints |-> 0, postCommentCount |-> 0,
         comment |-> 0, commentPoints |-> 0, commentCommentCount |-> 0,
         insComments |-> {}, insPostUpvotes |-> {}, delPostUpvotes |-> {},
         insCommentUpvotes |-> {}, delCommentUpvotes |-> {}]

NoResp == [status |-> 0, returned |-> FALSE, count |-> 0, isUpvoted |-> FALSE,
           data |-> {}]

NoRead == [op |-> "none", id |-> 0, viewer |-> NoUser, page |-> 1, limit |-> 1,
           includeChildren |-> FALSE, status |-> 0, count |-> 0, items |-> <<>>,
           totalPages |-> 0, isUpvoted |-> FALSE]

NoMon == [stage |-> "off", op |-> "none", id |-> 0, user |-> NoUser, base |-> 0]

\* a toggle that always adds a point
PointsChangeAlwaysUp(existing) == 1

\* pointsChange = existingUpvote ? -1 : 1
PointsChange(existing) == IF existing # 0 THEN -1 ELSE 1

PostRow(id) == <<"posts", id>>
CommentRow(id) == <<"comments", id>>

\* a row lock is free for p when no other handler's transaction holds it
LockFree(p, row) == \A q \in Procs \ {p} : row \notin locks[q]

InTx(q) == pc[q] \notin {"idle", "done"}

\* a finished handler's response is sent before any other statement runs
NoneDone == \A q \in Procs : pc[q] # "done"

\* the rows a handler's request operates on
Touches(q) ==
  IF ~InTx(q) THEN {}
  ELSE CASE req[q].op \in {"postUpvote", "postComment"} -> {PostRow(req[q].id)}
         [] req[q].op = "commentUpvote" -> {CommentRow(req[q].id)}
         [] req[q].op = "commentReply" ->
              {CommentRow(req[q].id)} \cup
              (IF req[q].parentPostId = 0 THEN {} ELSE {PostRow(req[q].parentPostId)})
         [] OTHER -> {}

Init ==
  /\ posts = <<>>
  /\ comments = <<>>
  /\ postUpvotes = {}
  /\ commentUpvotes = {}
  /\ serial = [posts |-> 0, comments |-> 0, postUpvote |-> 0, commentsUpvote |-> 0]
  /\ pc = [p \in Procs |-> "idle"]
  /\ req = [p \in Procs |-> NoReq]
  /\ txw = [p \in Procs |-> NoTx]
  /\ locks = [p \in Procs |-> {}]
  /\ resp = [p \in Procs |-> NoResp]
  /\ mon = [p \in Procs |-> NoMon]
  /\ calls = [top |-> [i \in PostIds |-> 0], reply |-> [i \in PostIds |-> 0]]
  /\ rd = [p \in Procs |-> NoRead]

\* ---------------------------------------------------------------- history
MonRow(m) == IF m.op = "postUpvote" THEN PostRow(m.id) ELSE CommentRow(m.id)

\* a step of handler q on `rows` ends every other handler's pair on one of them
MonStep(q, rows, own) ==
  [p \in Procs |->
     IF p = q THEN own
     ELSE IF mon[p].stage # "off" /\ MonRow(mon[p]) \in rows THEN NoMon
     ELSE mon[p]]

MonKeep(q, rows) ==
  IF mon[q].stage = "off" \/ MonRow(mon[q]) \in rows THEN NoMon ELSE mon[q]

HasVote(op, id, user) ==
  IF op = "postUpvote"
  THEN \E r \in postUpvotes : r.postId = id /\ r.userId = user
  ELSE \E r \in commentUpvotes : r.commentId = id /\ r.userId = user

Exists(op, id) ==
  IF op = "postUpvote" THEN id \in DOMAIN posts ELSE id \in DOMAIN comments

Points(op, id) ==
  IF op = "postUpvote" THEN posts[id].points ELSE comments[id].points

\* the pair of handler q when it starts toggle (op, id, user)
MonBegin(q, op, id, user) ==
  LET row == IF op = "postUpvote" THEN PostRow(id) ELSE CommentRow(id)
      quiet == \A o \in Procs \ {q} : row \notin Touches(o)
  IN IF /\ mon[q].stage = "first_done"
        /\ mon[q].op = op /\ mon[q].id = id /\ mon[q].user = user
     THEN [mon[q] EXCEPT !.stage = "second"]
     ELSE IF quiet /\ Exists(op, id) /\ ~HasVote(op, id, user)
     THEN [stage |-> "first", op |-> op, id |-> id, user |-> user,
           base |-> Points(op, id)]
     ELSE NoMon

MonEnd(q) ==
  CASE mon[q].stage = "first" -> [mon[q] EXCEPT !.stage = "first_done"]
    [] mon[q].stage = "second" -> [mon[q] EXCEPT !.stage = "pair_done"]
    [] OTHER -> mon[q]

MonIdle(q) == IF mon[q].stage = "pair_done" THEN NoMon ELSE mon[q]

\* ---------------------------------------------------------------- middleware
CanBegin(p) == pc[p] = "idle" /\ NoneDone

\* handler p is about to run the statement at `label`
At(p, label) == pc[p] = label /\ NoneDone

InFlight(ops) == Cardinality({q \in Procs : InTx(q) /\ req[q].op \in ops})

\* bound on the rows ever inserted: every started request can insert its row
RowsLeft ==
  serial.posts + serial.comments + serial.postUpvote + serial.commentsUpvote
    + Cardinality({q \in Procs : InTx(q) /\ req[q].op # "none"}) < MaxRows

\* POST /posts registered without loggedIn: the handler runs for no user
LoggedInNotOnCreatePost(p, op) ==
  /\ CanBegin(p)
  /\ pc' = [pc EXCEPT ![p] = "done"]
  /\ req' = [req EXCEPT ![p] = [NoReq EXCEPT !.op = op]]
  /\ IF op = "createPost" /\ serial.posts < MaxPosts
     THEN /\ serial' = [serial EXCEPT !.posts = @ + 1]
          /\ posts' = ((serial.posts + 1) :> NewPost) @@ posts
          /\ resp' = [resp EXCEPT ![p] = [NoResp EXCEPT !.status = 201, !.returned = TRUE,
                                                        !.data = {serial.posts + 1}]]
          /\ UNCHANGED <<comments, postUpvotes, commentUpvotes>>
     ELSE /\ resp' = [resp EXCEPT ![p] = [NoResp EXCEPT !.status = 401, !.returned = TRUE]]
          /\ UNCHANGED <<db, serial>>
  /\ UNCHANGED <<txw, locks, mon, calls, rd>>

\* loggedIn: no resolved user, the request ends 401 before its handler runs
LoggedIn(p, op) ==
  /\ CanBegin(p)
  /\ pc' = [pc EXCEPT ![p] = "done"]
  /\ req' = [req EXCEPT ![p] = [NoReq EXCEPT !.op = op]]
  /\ resp' = [resp EXCEPT ![p] = [NoResp EXCEPT !.status = 401, !.returned = TRUE]]
  /\ UNCHANGED <<db, serial, txw, locks, mon>>
  /\ UNCHANGED <<calls, rd>>

Unauthorized(p) ==
  \E op \in {"createPost", "postUpvote", "postComment", "commentUpvote", "commentReply"} :
    LoggedIn(p, op)

\* ---------------------------------------------------------------- transactions
\* the tables after the buffered writes of w are applied
ApplyPosts(w) ==
  [i \in DOMAIN posts |->
     IF i = w.post
     THEN [points |-> posts[i].points + w.postPoints,
           commentCount |-> posts[i].commentCount + w.postCommentCount]
     ELSE posts[i]]

ApplyComments(w) ==
  LET ins == w.insComments
      ids == DOMAIN comments \cup {c.id : c \in ins}
  IN [i \in ids |->
        IF i \in DOMAIN comments
        THEN IF i = w.comment
             THEN [comments[i] EXCEPT
                     !.points = @ + w.commentPoints,
                     !.commentCount = @ + w.commentCommentCount]
             ELSE comments[i]
        ELSE CHOOSE c \in ins : c.id = i]

ApplyPostUpvotes(w) ==
  {r \in postUpvotes : r.id \notin w.delPostUpvotes} \cup w.insPostUpvotes

ApplyCommentUpvotes(w) ==
  {r \in commentUpvotes : r.id \notin w.delCommentUpvotes} \cup w.insCommentUpvotes

\* db.transaction: the callback returned, its writes become visible together
Commit(p, r) ==
  /\ posts' = ApplyPosts(txw[p])
  /\ comments' = ApplyComments(txw[p])
  /\ postUpvotes' = ApplyPostUpvotes(txw[p])
  /\ commentUpvotes' = ApplyCommentUpvotes(txw[p])
  /\ txw' = [txw EXCEPT ![p] = NoTx]
  /\ locks' = [locks EXCEPT ![p] = {}]
  /\ pc' = [pc EXCEPT ![p] = "done"]
  /\ resp' = [resp EXCEPT ![p] = r]
  /\ mon' = MonStep(p, Touches(p), MonEnd(p))
  /\ calls' = CASE req[p].op = "postComment" ->
                    [calls EXCEPT !.top[req[p].id] = @ + 1]
                [] req[p].op = "commentReply" ->
                    [calls EXCEPT !.reply[req[p].parentPostId] = @ + 1]
                [] OTHER -> calls
  /\ UNCHANGED <<req, serial, rd>>

\* db.transaction: the callback threw, its writes are discarded
Rollback(p, status) ==
  /\ txw' = [txw EXCEPT ![p] = NoTx]
  /\ locks' = [locks EXCEPT ![p] = {}]
  /\ pc' = [pc EXCEPT ![p] = "done"]
  /\ resp' = [resp EXCEPT ![p] = [NoResp EXCEPT !.status = status, !.returned = TRUE]]
  /\ UNCHANGED <<db, serial>>

\* ---------------------------------------------------------------- postRouter
\* POST /posts
CreatePost(p, user) ==
  /\ CanBegin(p)
  /\ serial.posts < MaxPosts
  /\ RowsLeft
  /\ LET id == serial.posts + 1 IN
       /\ serial' = [serial EXCEPT !.posts = id]
       /\ posts' = (id :> NewPost) @@ posts
       /\ req' = [req EXCEPT ![p] = [NoReq EXCEPT !.op = "createPost", !.id = id,
                                                   !.user = user]]
       /\ resp' = [resp EXCEPT ![p] = [NoResp EXCEPT !.status = 201,
                                                     !.returned = TRUE, !.data = {id}]]
  /\ pc' = [pc EXCEPT ![p] = "done"]
  /\ UNCHANGED <<comments, postUpvotes, commentUpvotes, txw, locks, mon>>
  /\ UNCHANGED <<calls, rd>>

\* POST /posts/:id/upvote
PostUpvoteBegin(p, id, user) ==
  /\ CanBegin(p)
  /\ serial.postUpvote + InFlight({"postUpvote"}) < MaxPostUpvotes
  /\ RowsLeft
  /\ pc' = [pc EXCEPT ![p] = "pu_select"]
  /\ req' = [req EXCEPT ![p] = [NoReq EXCEPT !.op = "postUpvote", !.id = id,
                                               !.user = user]]
  /\ resp' = [resp EXCEPT ![p] = NoResp]
  /\ mon' = MonStep(p, {PostRow(id)}, MonBegin(p, "postUpvote", id, user))
  /\ UNCHANGED <<db, serial, txw, locks>>
  /\ UNCHANGED <<calls, rd>>

\* select ... from post_upvote where postId = id and userId = user limit 1
PostUpvoteSelect(p) ==
  /\ At(p, "pu_select")
  /\ LET rows == {r \in postUpvotes : r.postId = req[p].id /\ r.userId = req[p].user}
     IN \E e \in (IF rows = {} THEN {0} ELSE {r.id : r \in rows}) :
          req' = [req EXCEPT ![p].existing = e,
                             ![p].pointsChange = PointsChange(e)]
  /\ pc' = [pc EXCEPT ![p] = "pu_update"]
  /\ mon' = MonStep(p, Touches(p), mon[p])
  /\ UNCHANGED <<db, serial, txw, locks, resp>>
  /\ UNCHANGED <<calls, rd>>

\* the update as written with `return updated?.points` and no check of `updated`:
\* a missing post no longer ends the transaction
PostUpvoteUpdateUnchecked(p) ==
  /\ At(p, "pu_update")
  /\ LET id == req[p].id IN
       /\ LockFree(p, PostRow(id))
       /\ IF id \in DOMAIN posts
          THEN /\ locks' = [locks EXCEPT ![p] = @ \cup {PostRow(id)}]
               /\ txw' = [txw EXCEPT ![p].post = id,
                                     ![p].postPoints = @ + req[p].pointsChange]
               /\ req' = [req EXCEPT ![p].updated = posts[id].points + req[p].pointsChange]
          ELSE UNCHANGED <<locks, txw, req>>
  /\ pc' = [pc EXCEPT ![p] = "pu_write"]
  /\ mon' = MonStep(p, Touches(p), mon[p])
  /\ UNCHANGED <<db, serial, resp>>
  /\ UNCHANGED <<calls, rd>>

\* update posts set points = points + pointsChanges where id = :id returning points
PostUpvoteUpdate(p) ==
  /\ At(p, "pu_update")
  /\ LET id == req[p].id IN
       IF id \in DOMAIN posts
       THEN /\ LockFree(p, PostRow(id))
            /\ locks' = [locks EXCEPT ![p] = @ \cup {PostRow(id)}]
            /\ txw' = [txw EXCEPT ![p].post = id, ![p].postPoints = @ + req[p].pointsChange]
            /\ req' = [req EXCEPT ![p].updated = posts[id].points + req[p].pointsChange]
            /\ pc' = [pc EXCEPT ![p] = "pu_write"]
            /\ mon' = MonStep(p, Touches(p), mon[p])
            /\ UNCHANGED <<db, serial, resp>>
       ELSE /\ Rollback(p, 404)
            /\ mon' = MonStep(p, Touches(p), MonEnd(p))
            /\ UNCHANGED req
  /\ UNCHANGED <<calls, rd>>

\* the delete as written with `where postId = id`
PostUpvoteWriteDeleteByPost(p) ==
  /\ At(p, "pu_write")
  /\ IF req[p].existing # 0
     THEN /\ txw' = [txw EXCEPT ![p].delPostUpvotes =
                       @ \cup {r.id : r \in {x \in postUpvotes : x.postId = req[p].id}}]
          /\ UNCHANGED serial
     ELSE LET rid == serial.postUpvote + 1 IN
          /\ serial' = [serial EXCEPT !.postUpvote = rid]
          /\ txw' = [txw EXCEPT ![p].insPostUpvotes =
                       @ \cup {NewPostUpvote(rid, req[p].user, req[p].id)}]
  /\ pc' = [pc EXCEPT ![p] = "pu_commit"]
  /\ mon' = MonStep(p, Touches(p), mon[p])
  /\ UNCHANGED <<db, req, locks, resp>>
  /\ UNCHANGED <<calls, rd>>

\* existingUpvote ? delete from post_upvote where id = existing : insert into post_upvote
PostUpvoteWrite(p) ==
  /\ At(p, "pu_write")
  /\ IF req[p].existing # 0
     THEN /\ txw' = [txw EXCEPT ![p].delPostUpvotes = @ \cup {req[p].existing}]
          /\ UNCHANGED serial
     ELSE LET rid == serial.postUpvote + 1 IN
          /\ serial' = [serial EXCEPT !.postUpvote = rid]
          /\ txw' = [txw EXCEPT ![p].insPostUpvotes =
                       @ \cup {NewPostUpvote(rid, req[p].user, req[p].id)}]
  /\ pc' = [pc EXCEPT ![p] = "pu_commit"]
  /\ mon' = MonStep(p, Touches(p), mon[p])
  /\ UNCHANGED <<db, req, locks, resp>>
  /\ UNCHANGED <<calls, rd>>

\* return updated.points; c.json({count: points, isUpvoted: pointsChanges > 0})
PostUpvoteReturn(p) ==
  /\ At(p, "pu_commit")
  /\ Commit(p, [NoResp EXCEPT !.status = 200, !.returned = TRUE,
                              !.count = req[p].updated,
                              !.isUpvoted = req[p].pointsChange > 0])

\* POST /posts/:id/comment
PostCommentBegin(p, id, user) ==
  /\ CanBegin(p)
  /\ serial.comments + InFlight({"postComment", "commentReply"}) < MaxComments
  /\ RowsLeft
  /\ pc' = [pc EXCEPT ![p] = "pc_update"]
  /\ req' = [req EXCEPT ![p] = [NoReq EXCEPT !.op = "postComment", !.id = id,
                                               !.user = user]]
  /\ resp' = [resp EXCEPT ![p] = NoResp]
  /\ mon' = MonStep(p, {PostRow(id)}, MonKeep(p, {PostRow(id)}))
  /\ UNCHANGED <<db, serial, txw, locks>>
  /\ UNCHANGED <<calls, rd>>

\* the update as written without `if (updated === undefined) throw`
PostCommentUpdateUnchecked(p) ==
  /\ At(p, "pc_update")
  /\ LET id == req[p].id IN
       /\ LockFree(p, PostRow(id))
       /\ IF id \in DOMAIN posts
          THEN /\ locks' = [locks EXCEPT ![p] = @ \cup {PostRow(id)}]
               /\ txw' = [txw EXCEPT ![p].post = id, ![p].postCommentCount = @ + 1]
               /\ req' = [req EXCEPT ![p].updated = posts[id].commentCount + 1]
          ELSE UNCHANGED <<locks, txw, req>>
  /\ pc' = [pc EXCEPT ![p] = "pc_insert"]
  /\ mon' = MonStep(p, Touches(p), mon[p])
  /\ UNCHANGED <<db, serial, resp>>
  /\ UNCHANGED <<calls, rd>>

\* the update as written with `commentCount + 2`
PostCommentUpdateTwice(p) ==
  /\ At(p, "pc_update")
  /\ LET id == req[p].id IN
       IF id \in DOMAIN posts
       THEN /\ LockFree(p, PostRow(id))
            /\ locks' = [locks EXCEPT ![p] = @ \cup {PostRow(id)}]
            /\ txw' = [txw EXCEPT ![p].post = id, ![p].postCommentCount = @ + 2]
            /\ req' = [req EXCEPT ![p].updated = posts[id].commentCount + 2]
            /\ pc' = [pc EXCEPT ![p] = "pc_insert"]
            /\ UNCHANGED <<db, serial, resp>>
       ELSE /\ Rollback(p, 404)
            /\ UNCHANGED req
  /\ mon' = MonStep(p, Touches(p), mon[p])
  /\ UNCHANGED <<calls, rd>>

\* update posts set commentCount = commentCount + 1 where id = :id returning commentCount
PostCommentUpdate(p) ==
  /\ At(p, "pc_update")
  /\ LET id == req[p].id IN
       IF id \in DOMAIN posts
       THEN /\ LockFree(p, PostRow(id))
            /\ locks' = [locks EXCEPT ![p] = @ \cup {PostRow(id)}]
            /\ txw' = [txw EXCEPT ![p].post = id, ![p].postCommentCount = @ + 1]
            /\ req' = [req EXCEPT ![p].updated = posts[id].commentCount + 1]
            /\ pc' = [pc EXCEPT ![p] = "pc_insert"]
            /\ UNCHANGED <<db, serial, resp>>
       ELSE /\ Rollback(p, 404)
            /\ UNCHANGED req
  /\ mon' = MonStep(p, Touches(p), mon[p])
  /\ UNCHANGED <<calls, rd>>

\* insert into comments (content, userId, postId) returning *
PostCommentInsert(p) ==
  /\ At(p, "pc_insert")
  /\ LET cid == serial.comments + 1 IN
       /\ serial' = [serial EXCEPT !.comments = cid]
       /\ txw' = [txw EXCEPT ![p].insComments =
                    @ \cup {NewComment(cid, req[p].user, req[p].id, NULL, 0)}]
       /\ req' = [req EXCEPT ![p].comment = cid]
  /\ pc' = [pc EXCEPT ![p] = "pc_commit"]
  /\ mon' = MonStep(p, Touches(p), mon[p])
  /\ UNCHANGED <<db, locks, resp>>
  /\ UNCHANGED <<calls, rd>>

\* the transaction returns the inserted row; c.json(...) is called, not returned
PostCommentReturn(p) ==
  /\ At(p, "pc_commit")
  /\ Commit(p, [NoResp EXCEPT !.data = txw[p].insComments])

\* ---------------------------------------------------------------- commentsRouter
\* POST /comments/:id
CommentReplyBegin(p, id, user) ==
  /\ CanBegin(p)
  /\ serial.comments + InFlight({"postComment", "commentReply"}) < MaxComments
  /\ RowsLeft
  /\ pc' = [pc EXCEPT ![p] = "cr_select"]
  /\ req' = [req EXCEPT ![p] = [NoReq EXCEPT !.op = "commentReply", !.id = id,
                                               !.user = user]]
  /\ resp' = [resp EXCEPT ![p] = NoResp]
  /\ mon' = MonStep(p, {CommentRow(id)}, MonKeep(p, {CommentRow(id)}))
  /\ UNCHANGED <<db, serial, txw, locks>>
  /\ UNCHANGED <<calls, rd>>

\* the select as written with `postId: commentsTable.id`
CommentReplySelectOwnId(p) ==
  /\ At(p, "cr_select")
  /\ LET id == req[p].id IN
       IF id \in DOMAIN comments
       THEN /\ req' = [req EXCEPT ![p].parent = comments[id].id,
                                  ![p].parentPostId = comments[id].id,
                                  ![p].parentDepth = comments[id].depth]
            /\ pc' = [pc EXCEPT ![p] = "cr_update_parent"]
            /\ mon' = MonStep(p, {CommentRow(id)}, MonKeep(p, {CommentRow(id)}))
            /\ UNCHANGED <<db, serial, txw, locks, resp>>
       ELSE /\ Rollback(p, 404)
            /\ mon' = MonStep(p, Touches(p), mon[p])
            /\ UNCHANGED req
  /\ UNCHANGED <<calls, rd>>

\* select id, postId, depth from comments where id = :id limit 1
CommentReplySelect(p) ==
  /\ At(p, "cr_select")
  /\ LET id == req[p].id IN
       IF id \in DOMAIN comments
       THEN /\ req' = [req EXCEPT ![p].parent = comments[id].id,
                                  ![p].parentPostId = comments[id].postId,
                                  ![p].parentDepth = comments[id].depth]
            /\ pc' = [pc EXCEPT ![p] = "cr_update_parent"]
            /\ mon' = MonStep(p, {CommentRow(id), PostRow(comments[id].postId)},
                              MonKeep(p, {CommentRow(id), PostRow(comments[id].postId)}))
            /\ UNCHANGED <<db, serial, txw, locks, resp>>
       ELSE /\ Rollback(p, 404)
            /\ mon' = MonStep(p, Touches(p), mon[p])
            /\ UNCHANGED req
  /\ UNCHANGED <<calls, rd>>

\* the update as written against the top of the thread instead of the parent
CommentReplyUpdateRoot(p) ==
  /\ At(p, "cr_update_parent")
  /\ LET up == comments[req[p].parent].parentCommentId
         id == IF up = NULL THEN req[p].parent ELSE up IN
       /\ LockFree(p, CommentRow(id))
       /\ locks' = [locks EXCEPT ![p] = @ \cup {CommentRow(id)}]
       /\ txw' = [txw EXCEPT ![p].comment = id, ![p].commentCommentCount = @ + 1]
       /\ req' = [req EXCEPT ![p].updated = 1]
  /\ pc' = [pc EXCEPT ![p] = "cr_update_post"]
  /\ mon' = MonStep(p, Touches(p), mon[p])
  /\ UNCHANGED <<db, serial, resp>>
  /\ UNCHANGED <<calls, rd>>

\* the update as written on db instead of tx: it commits on its own
CommentReplyUpdateParentOnDb(p) ==
  /\ At(p, "cr_update_parent")
  /\ LET id == req[p].parent IN
       /\ LockFree(p, CommentRow(id))
       /\ comments' = [comments EXCEPT ![id].commentCount = @ + 1]
       /\ req' = [req EXCEPT ![p].updated = 1]
  /\ pc' = [pc EXCEPT ![p] = "cr_update_post"]
  /\ mon' = MonStep(p, Touches(p), mon[p])
  /\ UNCHANGED <<posts, postUpvotes, commentUpvotes, serial, resp, locks, txw>>
  /\ UNCHANGED <<calls, rd>>

\* update comments set commentCount = commentCount + 1 where id = parent.id
CommentReplyUpdateParent(p) ==
  /\ At(p, "cr_update_parent")
  /\ LET id == req[p].parent IN
       IF id \in DOMAIN comments
       THEN /\ LockFree(p, CommentRow(id))
            /\ locks' = [locks EXCEPT ![p] = @ \cup {CommentRow(id)}]
            /\ txw' = [txw EXCEPT ![p].comment = id, ![p].commentCommentCount = @ + 1]
            /\ req' = [req EXCEPT ![p].updated = 1]
       ELSE UNCHANGED <<locks, txw, req>>
  /\ pc' = [pc EXCEPT ![p] = "cr_update_post"]
  /\ mon' = MonStep(p, Touches(p), mon[p])
  /\ UNCHANGED <<db, serial, resp>>
  /\ UNCHANGED <<calls, rd>>

\* the handler as written without the update of the post's counter
CommentReplySkipPost(p) ==
  /\ At(p, "cr_update_post")
  /\ IF req[p].updated = 0
     THEN Rollback(p, 404)
     ELSE /\ pc' = [pc EXCEPT ![p] = "cr_insert"]
          /\ UNCHANGED <<db, serial, resp, locks, txw>>
  /\ mon' = MonStep(p, Touches(p), mon[p])
  /\ UNCHANGED req
  /\ UNCHANGED <<calls, rd>>

\* update posts set commentCount = commentCount + 1 where id = postId;
\* if (!updateParentComment || !updatedPost) throw 404
CommentReplyUpdatePost(p) ==
  /\ At(p, "cr_update_post")
  /\ LET postId == req[p].parentPostId IN
       IF postId \in DOMAIN posts
       THEN /\ LockFree(p, PostRow(postId))
            /\ IF req[p].updated = 0
               THEN /\ Rollback(p, 404)
               ELSE /\ locks' = [locks EXCEPT ![p] = @ \cup {PostRow(postId)}]
                    /\ txw' = [txw EXCEPT ![p].post = postId,
                                          ![p].postCommentCount = @ + 1]
                    /\ pc' = [pc EXCEPT ![p] = "cr_insert"]
                    /\ UNCHANGED <<db, serial, resp>>
       ELSE Rollback(p, 404)
  /\ mon' = MonStep(p, Touches(p), mon[p])
  /\ UNCHANGED req
  /\ UNCHANGED <<calls, rd>>

\* the insert as written with `depth: parentComment.depth`
CommentReplyInsertSameDepth(p) ==
  /\ At(p, "cr_insert")
  /\ LET cid == serial.comments + 1 IN
       /\ serial' = [serial EXCEPT !.comments = cid]
       /\ txw' = [txw EXCEPT ![p].insComments =
                    @ \cup {NewComment(cid, req[p].user, req[p].parentPostId,
                                       req[p].parent, req[p].parentDepth)}]
       /\ req' = [req EXCEPT ![p].comment = cid]
  /\ pc' = [pc EXCEPT ![p] = "cr_commit"]
  /\ mon' = MonStep(p, Touches(p), mon[p])
  /\ UNCHANGED <<db, locks, resp>>
  /\ UNCHANGED <<calls, rd>>

\* insert into comments (content, userId, postId, parentCommentId, depth) returning *
CommentReplyInsert(p) ==
  /\ At(p, "cr_insert")
  /\ LET cid == serial.comments + 1 IN
       /\ serial' = [serial EXCEPT !.comments = cid]
       /\ txw' = [txw EXCEPT ![p].insComments =
                    @ \cup {NewComment(cid, req[p].user, req[p].parentPostId,
                                       req[p].parent, req[p].parentDepth + 1)}]
       /\ req' = [req EXCEPT ![p].comment = cid]
  /\ pc' = [pc EXCEPT ![p] = "cr_commit"]
  /\ mon' = MonStep(p, Touches(p), mon[p])
  /\ UNCHANGED <<db, locks, resp>>
  /\ UNCHANGED <<calls, rd>>

\* the transaction returns the inserted row; c.json(...) is called, not returned
CommentReplyReturn(p) ==
  /\ At(p, "cr_commit")
  /\ Commit(p, [NoResp EXCEPT !.data = txw[p].insComments])

\* POST /comments/:id/upvote
CommentUpvoteBegin(p, id, user) ==
  /\ CanBegin(p)
  /\ serial.commentsUpvote + InFlight({"commentUpvote"}) < MaxCommentUpvotes
  /\ RowsLeft
  /\ pc' = [pc EXCEPT ![p] = "cu_select"]
  /\ req' = [req EXCEPT ![p] = [NoReq EXCEPT !.op = "commentUpvote", !.id = id,
                                               !.user = user]]
  /\ resp' = [resp EXCEPT ![p] = NoResp]
  /\ mon' = MonStep(p, {CommentRow(id)}, MonBegin(p, "commentUpvote", id, user))
  /\ UNCHANGED <<db, serial, txw, locks>>
  /\ UNCHANGED <<calls, rd>>

\* select ... from comments_post_upvote where commentId = id and userId = user limit 1
CommentUpvoteSelect(p) ==
  /\ At(p, "cu_select")
  /\ LET rows == {r \in commentUpvotes :
                    r.commentId = req[p].id /\ r.userId = req[p].user}
     IN \E e \in (IF rows = {} THEN {0} ELSE {r.id : r \in rows}) :
          req' = [req EXCEPT ![p].existing = e,
                             ![p].pointsChange = PointsChange(e)]
  /\ pc' = [pc EXCEPT ![p] = "cu_update"]
  /\ mon' = MonStep(p, Touches(p), mon[p])
  /\ UNCHANGED <<db, serial, txw, locks, resp>>
  /\ UNCHANGED <<calls, rd>>

\* update comments set points = points + pointsChange where id = :id returning points
CommentUpvoteUpdate(p) ==
  /\ At(p, "cu_update")
  /\ LET id == req[p].id IN
       IF id \in DOMAIN comments
       THEN /\ LockFree(p, CommentRow(id))
            /\ locks' = [locks EXCEPT ![p] = @ \cup {CommentRow(id)}]
            /\ txw' = [txw EXCEPT ![p].comment = id,
                                  ![p].commentPoints = @ + req[p].pointsChange]
            /\ req' = [req EXCEPT ![p].updated = comments[id].points + req[p].pointsChange]
            /\ pc' = [pc EXCEPT ![p] = "cu_write"]
            /\ mon' = MonStep(p, Touches(p), mon[p])
            /\ UNCHANGED <<db, serial, resp>>
       ELSE /\ Rollback(p, 404)
            /\ mon' = MonStep(p, Touches(p), MonEnd(p))
            /\ UNCHANGED req
  /\ UNCHANGED <<calls, rd>>

\* existingUpvote ? delete from comments_post_upvote where id = existing : insert
CommentUpvoteWrite(p) ==
  /\ At(p, "cu_write")
  /\ IF req[p].existing # 0
     THEN /\ txw' = [txw EXCEPT ![p].delCommentUpvotes = @ \cup {req[p].existing}]
          /\ UNCHANGED serial
     ELSE LET rid == serial.commentsUpvote + 1 IN
          /\ serial' = [serial EXCEPT !.commentsUpvote = rid]
          /\ txw' = [txw EXCEPT ![p].insCommentUpvotes =
                       @ \cup {NewCommentUpvote(rid, req[p].user, req[p].id)}]
  /\ pc' = [pc EXCEPT ![p] = "cu_commit"]
  /\ mon' = MonStep(p, Touches(p), mon[p])
  /\ UNCHANGED <<db, req, locks, resp>>
  /\ UNCHANGED <<calls, rd>>

\* return updated.points; c.json({count: points, commentUpvotes: pointsChange === 1 ? [user] : []})
CommentUpvoteReturn(p) ==
  /\ At(p, "cu_commit")
  /\ Commit(p, [NoResp EXCEPT !.status = 200, !.returned = TRUE,
                              !.count = req[p].updated,
                              !.isUpvoted = req[p].pointsChange = 1])

\* ---------------------------------------------------------------- listings
Viewers == Users \cup {NoUser}
SortBys == {"points", "recent"}
Orders == {"asc", "desc"}
Pages == 1..MaxPage
Limits == 1..MaxLimit

\* Math.ceil(count?.count || 0 / limit): `/` binds tighter than `||`
TotalPages(count, limit) == IF count # 0 THEN count ELSE 0 \div limit

\* the sequences that hold every element of S once
Perms(S) ==
  {f \in [1..Cardinality(S) -> S] :
     \A i, j \in 1..Cardinality(S) : f[i] = f[j] => i = j}

\* order by key asc | desc; rows of equal key come in any order
Ordered(S, key, order) ==
  {f \in Perms(S) :
     \A i, j \in DOMAIN f :
       i < j => IF order = "desc" THEN key[f[i]] >= key[f[j]]
                                  ELSE key[f[i]] <= key[f[j]]}

\* limit `limit` offset `offset`
Window(f, limit, offset) ==
  LET last == IF offset + limit < Len(f) THEN offset + limit ELSE Len(f)
  IN IF offset + 1 > last THEN <<>> ELSE SubSeq(f, offset + 1, last)

\* sortBy === "points" ? points : createdAt; createdAt grows with the id
PostSortKey(sortBy) ==
  [i \in DOMAIN posts |-> IF sortBy = "points" THEN posts[i].points ELSE i]

CommentSortKey(sortBy) ==
  [c \in DOMAIN comments |-> IF sortBy = "points" THEN comments[c].points ELSE c]

\* the join as written without eq(postUpvoteTable.userId, user.id)
PostIsUpvotedByAnyone(id, viewer) ==
  viewer # NoUser /\ \E r \in postUpvotes : r.postId = id

\* isUpvoted: a joined post_upvote row of (user, post) exists; false without user
PostIsUpvoted(id, viewer) ==
  viewer # NoUser /\ \E r \in postUpvotes : r.postId = id /\ r.userId = viewer

\* rows of the left join per post: one per matching post_upvote row, at least one
JoinRows(id, viewer) ==
  LET n == Cardinality({r \in postUpvotes : r.postId = id /\ r.userId = viewer})
  IN IF viewer = NoUser \/ n = 0 THEN 1 ELSE n

RECURSIVE Joined(_, _)
Joined(f, viewer) ==
  IF f = <<>> THEN <<>>
  ELSE [k \in 1..JoinRows(Head(f), viewer) |->
          [id |-> Head(f), isUpvoted |-> PostIsUpvoted(Head(f), viewer)]]
       \o Joined(Tail(f), viewer)

\* with commentUpvotes where userId = user?.id ?? "" limit 1
CarriedUpvotes(c, viewer) ==
  IF \E r \in commentUpvotes : r.commentId = c /\ r.userId = viewer THEN 1 ELSE 0

\* a where clause on the parent's depth and post instead of parentCommentId
ChildrenWhereDepth(id) ==
  {c \in DOMAIN comments :
     /\ id \in DOMAIN comments
     /\ comments[c].depth = comments[id].depth + 1
     /\ comments[c].postId = comments[id].postId}

\* where eq(commentsTable.parentCommentId, id)
ChildrenWhere(id) == {c \in DOMAIN comments : comments[c].parentCommentId = id}

\* where and(eq(commentsTable.postId, id), isNull(commentsTable.parentCommentId))
TopLevelWhere(id) ==
  {c \in DOMAIN comments :
     comments[c].postId = id /\ comments[c].parentCommentId = NULL}

\* a preview limit of 3
ChildLimitThree(includeChildren) == IF includeChildren THEN 3 ELSE 0

\* limit: includeChildren ? 2 : 0
ChildLimit(includeChildren) == IF includeChildren THEN 2 ELSE 0

\* childComments of one returned comment: ordered like the list, limited
Previews(c, sortBy, order, includeChildren) ==
  {Window(g, ChildLimit(includeChildren), 0) :
     g \in Ordered(ChildrenWhere(c), CommentSortKey(sortBy), order)}

CommentItem(c, viewer, kids) ==
  [id |-> c, commentUpvotes |-> CarriedUpvotes(c, viewer), childComments |-> kids]

\* A GET statement reads committed rows only: run while another handler's
\* transaction is open it reads what it reads before that transaction began,
\* so the model takes it when no transaction is open.
ReadsCommitted(p) == \A q \in Procs \ {p} : ~InTx(q) \/ req[q].op = "none"

ReadFrame == UNCHANGED <<db, serial, req, txw, locks, resp, mon, calls>>

\* GET /posts/:id
GetPost(p, id, viewer) ==
  /\ CanBegin(p)
  /\ rd' = [rd EXCEPT ![p] =
       IF id \in DOMAIN posts
       THEN [NoRead EXCEPT !.op = "getPost", !.id = id, !.viewer = viewer,
                           !.status = 200,
                           !.items = <<Head(Joined(<<id>>, viewer)).id>>,
                           !.isUpvoted = Head(Joined(<<id>>, viewer)).isUpvoted]
       ELSE [NoRead EXCEPT !.op = "getPost", !.id = id, !.viewer = viewer,
                           !.status = 404]]
  /\ pc' = [pc EXCEPT ![p] = "done"]
  /\ ReadsCommitted(p)
  /\ ReadFrame

\* GET /posts: select countDistinct(posts.id)
ListPostsCount(p, page, limit) ==
  /\ CanBegin(p)
  /\ rd' = [rd EXCEPT ![p] =
       [NoRead EXCEPT !.op = "listPosts", !.page = page,
                      !.limit = limit, !.count = Cardinality(DOMAIN posts)]]
  /\ pc' = [pc EXCEPT ![p] = "lp_query"]
  /\ ReadsCommitted(p)
  /\ ReadFrame

\* GET /posts: the joined select, ordered, limited, offset (page - 1) * limit
ListPostsQuery(p, viewer, sortBy, order) ==
  /\ At(p, "lp_query")
  /\ \E f \in Ordered(DOMAIN posts, PostSortKey(sortBy), order) :
       rd' = [rd EXCEPT ![p].items =
                Window(Joined(f, viewer), rd[p].limit,
                       (rd[p].page - 1) * rd[p].limit),
              ![p].viewer = viewer,
              ![p].status = 200,
              ![p].totalPages = TotalPages(rd[p].count, rd[p].limit)]
  /\ pc' = [pc EXCEPT ![p] = "done"]
  /\ ReadsCommitted(p)
  /\ ReadFrame

\* GET /comments/:id/comments: select countDistinct(comments.id)
ListChildrenCount(p, id, page, limit) ==
  /\ CanBegin(p)
  /\ rd' = [rd EXCEPT ![p] =
       [NoRead EXCEPT !.op = "listChildren", !.id = id,
                      !.page = page, !.limit = limit,
                      !.count = Cardinality(ChildrenWhere(id))]]
  /\ pc' = [pc EXCEPT ![p] = "lc_query"]
  /\ ReadsCommitted(p)
  /\ ReadFrame

\* GET /comments/:id/comments: findMany
ListChildrenQuery(p, viewer, sortBy, order) ==
  /\ At(p, "lc_query")
  /\ \E f \in Ordered(ChildrenWhere(rd[p].id), CommentSortKey(sortBy), order) :
       LET w == Window(f, rd[p].limit, (rd[p].page - 1) * rd[p].limit) IN
         rd' = [rd EXCEPT ![p].items =
                  [k \in 1..Len(w) |-> CommentItem(w[k], viewer, <<>>)],
                ![p].viewer = viewer,
                ![p].status = 200,
                ![p].totalPages = TotalPages(rd[p].count, rd[p].limit)]
  /\ pc' = [pc EXCEPT ![p] = "done"]
  /\ ReadsCommitted(p)
  /\ ReadFrame

\* GET /posts/:id/comments: select 1 from posts where id; if (postExists) throw 404
PostCommentsExists(p, id, page, limit) ==
  /\ CanBegin(p)
  /\ LET r == [NoRead EXCEPT !.op = "postComments", !.id = id,
                             !.page = page, !.limit = limit]
     IN IF id \in DOMAIN posts
        THEN /\ rd' = [rd EXCEPT ![p] = [r EXCEPT !.status = 404]]
             /\ pc' = [pc EXCEPT ![p] = "done"]
        ELSE /\ rd' = [rd EXCEPT ![p] = r]
             /\ pc' = [pc EXCEPT ![p] = "pcs_count"]
  /\ ReadsCommitted(p)
  /\ ReadFrame

\* GET /posts/:id/comments: select countDistinct(comments.id)
PostCommentsCount(p) ==
  /\ At(p, "pcs_count")
  /\ rd' = [rd EXCEPT ![p].count = Cardinality(TopLevelWhere(rd[p].id))]
  /\ pc' = [pc EXCEPT ![p] = "pcs_query"]
  /\ ReadsCommitted(p)
  /\ ReadFrame

\* GET /posts/:id/comments: findMany with childComments
PostCommentsQuery(p, viewer, sortBy, order, includeChildren) ==
  /\ At(p, "pcs_query")
  /\ \E f \in Ordered(TopLevelWhere(rd[p].id), CommentSortKey(sortBy), order) :
       LET w == Window(f, rd[p].limit, (rd[p].page - 1) * rd[p].limit)
           pv(c) == Previews(c, sortBy, order, includeChildren)
       IN \E kids \in [1..Len(w) -> UNION {pv(w[k]) : k \in 1..Len(w)}] :
            /\ \A k \in 1..Len(w) : kids[k] \in pv(w[k])
            /\ rd' = [rd EXCEPT ![p].items =
                        [k \in 1..Len(w) |-> CommentItem(w[k], viewer, kids[k])],
                      ![p].viewer = viewer,
                      ![p].includeChildren = includeChildren,
                      ![p].status = 200,
                      ![p].totalPages = TotalPages(rd[p].count, rd[p].limit)]
  /\ pc' = [pc EXCEPT ![p] = "done"]
  /\ ReadsCommitted(p)
  /\ ReadFrame

\* the response leaves, the handler is free for the next request
Respond(p) ==
  /\ pc[p] = "done"
  /\ pc' = [pc EXCEPT ![p] = "idle"]
  /\ req' = [req EXCEPT ![p] = NoReq]
  /\ resp' = [resp EXCEPT ![p] = NoResp]
  /\ mon' = [mon EXCEPT ![p] = MonIdle(p)]
  /\ rd' = [rd EXCEPT ![p] = NoRead]
  /\ UNCHANGED <<db, serial, txw, locks>>
  /\ UNCHANGED calls

Next ==
  \E p \in Procs :
    \/ Respond(p)
    \/ Unauthorized(p)
    \/ \E u \in Authors : CreatePost(p, u)
    \/ \E id \in PostIds, u \in Users : PostUpvoteBegin(p, id, u)
    \/ PostUpvoteSelect(p)
    \/ PostUpvoteUpdate(p)
    \/ PostUpvoteWrite(p)
    \/ PostUpvoteReturn(p)
    \/ \E id \in PostIds, u \in Authors : PostCommentBegin(p, id, u)
    \/ PostCommentUpdate(p)
    \/ PostCommentInsert(p)
    \/ PostCommentReturn(p)
    \/ \E id \in CommentIds, u \in Authors : CommentReplyBegin(p, id, u)
    \/ CommentReplySelect(p)
    \/ CommentReplyUpdateParent(p)
    \/ CommentReplyUpdatePost(p)
    \/ CommentReplyInsert(p)
    \/ CommentReplyReturn(p)
    \/ \E id \in CommentIds, u \in Users : CommentUpvoteBegin(p, id, u)
    \/ CommentUpvoteSelect(p)
    \/ CommentUpvoteUpdate(p)
    \/ CommentUpvoteWrite(p)
    \/ CommentUpvoteReturn(p)

Spec == Init /\ [][Next]_vars

\* one writer, then a reader: every write handler by Writer, every GET by Reader
Writer == "r1"
Reader == "r2"

NextRead ==
  \/ \E p \in {Writer, Reader} : Respond(p)
  \/ \E u \in Authors : CreatePost(Writer, u)
  \/ \E id \in PostIds, u \in Users : PostUpvoteBegin(Writer, id, u)
  \/ PostUpvoteSelect(Writer)
  \/ PostUpvoteUpdate(Writer)
  \/ PostUpvoteWrite(Writer)
  \/ PostUpvoteReturn(Writer)
  \/ \E id \in PostIds, u \in Authors : PostCommentBegin(Writer, id, u)
  \/ PostCommentUpdate(Writer)
  \/ PostCommentInsert(Writer)
  \/ PostCommentReturn(Writer)
  \/ \E id \in CommentIds, u \in Authors : CommentReplyBegin(Writer, id, u)
  \/ CommentReplySelect(Writer)
  \/ CommentReplyUpdateParent(Writer)
  \/ CommentReplyUpdatePost(Writer)
  \/ CommentReplyInsert(Writer)
  \/ CommentReplyReturn(Writer)
  \/ \E id \in CommentIds, u \in Users : CommentUpvoteBegin(Writer, id, u)
  \/ CommentUpvoteSelect(Writer)
  \/ CommentUpvoteUpdate(Writer)
  \/ CommentUpvoteWrite(Writer)
  \/ CommentUpvoteReturn(Writer)
  \/ \E id \in PostIds, v \in Viewers : GetPost(Reader, id, v)
  \/ \E page \in Pages, limit \in Limits : ListPostsCount(Reader, page, limit)
  \/ \E v \in Viewers, sortBy \in SortBys, order \in Orders :
       ListPostsQuery(Reader, v, sortBy, order)
  \/ \E id \in CommentIds, page \in Pages, limit \in Limits :
       ListChildrenCount(Reader, id, page, limit)
  \/ \E v \in Viewers, sortBy \in SortBys, order \in Orders :
       ListChildrenQuery(Reader, v, sortBy, order)
  \/ \E id \in PostIds, page \in Pages, limit \in Limits :
       PostCommentsExists(Reader, id, page, limit)
  \/ PostCommentsCount(Reader)
  \/ \E v \in Viewers, sortBy \in SortBys, order \in Orders, includeChildren \in BOOLEAN :
       PostCommentsQuery(Reader, v, sortBy, order, includeChildren)

SpecRead == Init /\ [][NextRead]_vars

\* ================================================================ claims

\* C1: at most one post_upvote row per (userId, postId) and at most one
\* comments_post_upvote row per (userId, commentId), in every reachable state.
UpvoteUniqueness ==
  /\ \A r1, r2 \in postUpvotes :
       (r1.userId = r2.userId /\ r1.postId = r2.postId) => r1 = r2
  /\ \A r1, r2 \in commentUpvotes :
       (r1.userId = r2.userId /\ r1.commentId = r2.commentId) => r1 = r2

\* C2: every post's points is the number of post_upvote rows of the post and
\* every comment's points is the number of comments_post_upvote rows of the comment.
PointsConsistency ==
  /\ \A i \in DOMAIN posts :
       posts[i].points = Cardinality({r \in postUpvotes : r.postId = i})
  /\ \A i \in DOMAIN comments :
       comments[i].points = Cardinality({r \in commentUpvotes : r.commentId = i})

\* C3: two toggles of (E, U) one after the other, started with no vote of U on E
\* and with no other operation on E in between, end with E.points at its first
\* value, no vote row of (U, E), and a second response of that total and no vote.
TogglePairing ==
  \A p \in Procs :
    mon[p].stage = "pair_done" =>
      /\ resp[p].status = 200
      /\ resp[p].count = mon[p].base
      /\ resp[p].isUpvoted = FALSE
      /\ Points(mon[p].op, mon[p].id) = mon[p].base
      /\ ~HasVote(mon[p].op, mon[p].id, mon[p].user)

TogglePairingWitness ==
  \E p \in Procs :
    /\ mon[p].stage = "pair_done"
    /\ mon[p].op = "commentUpvote"
    /\ \E q \in Procs \ {p} : InTx(q)

IsToggle(p) == req[p].op \in {"postUpvote", "commentUpvote"} /\ req[p].user # NoUser

\* C4: a toggle on a post or comment id that does not exist ends 404, its failing
\* step changes no table, and no upvote row ever references a missing entity.
NotFoundToggle ==
  /\ [](\A p \in Procs :
          (pc[p] = "done" /\ IsToggle(p) /\ ~Exists(req[p].op, req[p].id))
            => resp[p].status = 404)
  /\ [](/\ \A r \in postUpvotes : r.postId \in DOMAIN posts
        /\ \A r \in commentUpvotes : r.commentId \in DOMAIN comments)
  /\ [][\A p \in Procs :
          (IsToggle(p) /\ InTx(p) /\ pc'[p] = "done" /\ resp'[p].status = 404)
            => UNCHANGED <<db, serial>>]_vars

NotFoundToggleWitness ==
  \E p \in Procs :
    /\ pc[p] = "done" /\ IsToggle(p) /\ resp[p].status = 404
    /\ ~Exists(req[p].op, req[p].id)
    /\ postUpvotes # {}
    /\ \E i \in DOMAIN posts : posts[i].points > 0

\* C5: the response of a successful toggle of (E, U) carries E.points as stored
\* after the commit, and reports a vote exactly when a row of (U, E) exists then.
ToggleResultMatchesCommit ==
  \A p \in Procs :
    (pc[p] = "done" /\ IsToggle(p) /\ resp[p].status = 200) =>
      /\ resp[p].count = Points(req[p].op, req[p].id)
      /\ resp[p].isUpvoted = HasVote(req[p].op, req[p].id, req[p].user)

Children(c) == {d \in DOMAIN comments : comments[d].parentCommentId = c}

CommentsOf(i) == {c \in DOMAIN comments : comments[c].postId = i}

\* C6: a post with N committed top-level comment creations and no reply under it
\* has commentCount N, and each comment so created is returned and stored with
\* no parent, depth 0, commentCount 0 and points 0.
TopLevelCommentCount ==
  /\ \A i \in DOMAIN posts :
       calls.reply[i] = 0 => posts[i].commentCount = calls.top[i]
  /\ \A p \in Procs :
       (pc[p] = "done" /\ req[p].op = "postComment" /\ req[p].comment # 0) =>
         /\ req[p].comment \in DOMAIN comments
         /\ resp[p].data = {comments[req[p].comment]}
         /\ \A c \in resp[p].data :
              /\ c.postId = req[p].id
              /\ c.parentCommentId = NULL /\ c.depth = 0
              /\ c.commentCount = 0 /\ c.points = 0

TopLevelCommentCountWitness ==
  \E p \in Procs :
    /\ pc[p] = "done" /\ req[p].op = "postComment" /\ req[p].comment # 0
    /\ calls.top[req[p].id] = 2 /\ calls.reply[req[p].id] = 0
    /\ posts[req[p].id].commentCount = 2

\* C7: every comment's commentCount is the number of its direct children.
DirectChildrenCount ==
  \A c \in DOMAIN comments : comments[c].commentCount = Cardinality(Children(c))

\* a reply to a reply has committed: the grandparent's counter stayed at 1
DirectChildrenCountWitness ==
  \E c \in DOMAIN comments, d \in DOMAIN comments :
    /\ d \in Children(c) /\ Children(d) # {}
    /\ comments[c].commentCount = 1 /\ comments[d].commentCount = 1

\* C8: a comment without parent has depth 0, a comment with a parent has its
\* parent's depth + 1.
DepthInvariant ==
  \A c \in DOMAIN comments :
    IF comments[c].parentCommentId = NULL
    THEN comments[c].depth = 0
    ELSE /\ comments[c].parentCommentId \in DOMAIN comments
         /\ comments[c].depth = comments[comments[c].parentCommentId].depth + 1

DepthInvariantWitness ==
  \E c \in DOMAIN comments : comments[c].depth = 2

\* C9: a comment with a parent carries its parent's postId, and that post exists.
ThreadPostLinkage ==
  \A c \in DOMAIN comments :
    comments[c].parentCommentId # NULL =>
      /\ comments[c].parentCommentId \in DOMAIN comments
      /\ comments[c].postId = comments[comments[c].parentCommentId].postId
      /\ comments[c].postId \in DOMAIN posts

\* a reply under the second post, while the first post has a comment too
ThreadPostLinkageWitness ==
  \E c \in DOMAIN comments :
    /\ comments[c].parentCommentId # NULL
    /\ comments[c].postId = 2
    /\ CommentsOf(1) # {}

\* C10: every post's commentCount is the number of comments (of every depth)
\* carrying its id, and every comment's commentCount the number of its direct
\* children, whatever the interleaving of the creating transactions.
NoLostCounterUpdates ==
  /\ \A i \in DOMAIN posts : posts[i].commentCount = Cardinality(CommentsOf(i))
  /\ \A c \in DOMAIN comments : comments[c].commentCount = Cardinality(Children(c))

\* a top-level comment committed while a reply under the same post, begun before,
\* holds its parent's row and waits for the post's row
NoLostCounterUpdatesWitness ==
  \E p \in Procs, q \in Procs :
    /\ pc[p] = "done" /\ req[p].op = "postComment" /\ req[p].comment # 0
    /\ pc[q] = "cr_update_post" /\ req[q].parentPostId = req[p].id
    /\ req[q].updated = 1
    /\ posts[req[p].id].commentCount = 2

IsReply(p) == req[p].op = "commentReply" /\ req[p].user # NoUser

\* C11: a reply to a missing parent ends 404; a reply that fails leaves every
\* table as it was; no write of a reply is visible before its commit, and the
\* commit shows the parent's increment, the post's increment and the new row at once.
ReplyAllOrNothing ==
  /\ [](\A p \in Procs :
          (pc[p] = "done" /\ IsReply(p) /\ req[p].id \notin DOMAIN comments)
            => (resp[p].status = 404 /\ req[p].comment = 0))
  /\ [][\A p \in Procs :
          (IsReply(p) /\ InTx(p) /\ pc'[p] # pc[p]) =>
            IF pc[p] = "cr_commit"
            THEN LET par == req[p].parent
                     post == req[p].parentPostId
                     c == req[p].comment
                 IN /\ comments'[par].commentCount = comments[par].commentCount + 1
                    /\ posts'[post].commentCount = posts[post].commentCount + 1
                    /\ c \notin DOMAIN comments /\ c \in DOMAIN comments'
                    /\ comments'[c].parentCommentId = par
            ELSE /\ UNCHANGED db
                 /\ pc'[p] = "done" => resp'[p].status = 404]_vars

ReplyAllOrNothingWitness ==
  \E p \in Procs :
    /\ pc[p] = "done" /\ IsReply(p) /\ resp[p].status = 404
    /\ \E c \in DOMAIN comments : comments[c].commentCount > 0

IsTopLevel(p) == req[p].op = "postComment" /\ req[p].user # NoUser

\* C12: a top-level comment on a post id that does not exist ends 404, inserts
\* no comments row and changes no counter.
TopLevelNotFound ==
  /\ [](\A p \in Procs :
          (pc[p] = "done" /\ IsTopLevel(p) /\ req[p].id \notin DOMAIN posts)
            => (resp[p].status = 404 /\ req[p].comment = 0))
  /\ [](\A c \in DOMAIN comments : comments[c].postId \in DOMAIN posts)
  /\ [][\A p \in Procs :
          (IsTopLevel(p) /\ InTx(p) /\ pc'[p] = "done" /\ resp'[p].status = 404)
            => UNCHANGED <<db, serial>>]_vars

TopLevelNotFoundWitness ==
  \E p \in Procs :
    /\ pc[p] = "done" /\ IsTopLevel(p) /\ resp[p].status = 404
    /\ req[p].id \notin DOMAIN posts
    /\ \E i \in DOMAIN posts : posts[i].commentCount > 0

\* C13: a comment creation whose transaction committed answers with a success
\* carrying the created comment.
CreationResponseAgreesWithCommit ==
  \A p \in Procs :
    (/\ pc[p] = "done" /\ req[p].op \in {"postComment", "commentReply"}
     /\ req[p].comment \in DOMAIN comments) =>
      /\ resp[p].returned
      /\ resp[p].status \in {200, 201}
      /\ resp[p].data = {comments[req[p].comment]}

MutatingOps == {"createPost", "postUpvote", "postComment", "commentUpvote", "commentReply"}

\* C16: a mutating request without a resolved user ends 401, and no table,
\* sequence, transaction or lock is touched for it.
UnauthorizedLeavesStore ==
  /\ [](\A p \in Procs :
          (pc[p] = "done" /\ req[p].op \in MutatingOps /\ req[p].user = NoUser)
            => (resp[p].status = 401 /\ resp[p].returned))
  /\ [][\A p \in Procs :
          (pc[p] # "done" /\ pc'[p] = "done" /\ req'[p].op \in MutatingOps
             /\ req'[p].user = NoUser)
            => UNCHANGED <<db, serial, txw, locks>>]_vars

UnauthorizedLeavesStoreWitness ==
  \E p \in Procs :
    /\ pc[p] = "done" /\ req[p].op = "commentReply" /\ req[p].user = NoUser
    /\ resp[p].status = 401
    /\ comments # <<>> /\ postUpvotes # {}

Ceil(n, d) == (n + d - 1) \div d

IsListing(p) == rd[p].op \in {"listPosts", "listChildren", "postComments"}

TopLevelOf(i) ==
  {c \in DOMAIN comments : comments[c].postId = i /\ comments[c].parentCommentId = NULL}

\* C14: every listing that answers with success reports
\* totalPages = ceil(totalCount / limit), totalCount the counted matching rows.
TotalPagesIsCeil ==
  \A p \in Procs :
    (pc[p] = "done" /\ IsListing(p) /\ rd[p].status = 200)
      => rd[p].totalPages = Ceil(rd[p].count, rd[p].limit)

\* C15: list comments for post answers, for a post that exists, with success and
\* only top-level comments of that post, and with 404 for a post that does not exist.
PostCommentsByExistence ==
  \A p \in Procs :
    (pc[p] = "done" /\ rd[p].op = "postComments") =>
      IF rd[p].id \in DOMAIN posts
      THEN /\ rd[p].status = 200
           /\ \A k \in DOMAIN rd[p].items : rd[p].items[k].id \in TopLevelOf(rd[p].id)
      ELSE rd[p].status = 404

\* the rows a listing's filter matches
Matching(r) ==
  CASE r.op = "listPosts" -> DOMAIN posts
    [] r.op = "listChildren" -> Children(r.id)
    [] OTHER -> TopLevelOf(r.id)

\* C17: a listing asked for a page beyond ceil(totalCount / limit) answers with
\* success and an empty list (for posts, for the top-level comments of a post
\* that exists, for the children of a comment).
PageBeyondIsEmpty ==
  \A p \in Procs :
    (/\ pc[p] = "done" /\ IsListing(p)
     /\ rd[p].op = "postComments" => rd[p].id \in DOMAIN posts
     /\ rd[p].page > Ceil(Cardinality(Matching(rd[p])), rd[p].limit))
      => (rd[p].status = 200 /\ rd[p].items = <<>>)

\* C18: list children of comment id answers with comments whose parentCommentId
\* is id, each once and at most limit of them, and its count is the number of
\* comments with that parentCommentId whatever page and limit are.
ChildrenListedDirectOnly ==
  /\ [](\A p \in Procs :
          (pc[p] = "done" /\ rd[p].op = "listChildren") =>
            /\ rd[p].status = 200
            /\ Len(rd[p].items) <= rd[p].limit
            /\ \A k \in DOMAIN rd[p].items :
                 comments[rd[p].items[k].id].parentCommentId = rd[p].id
            /\ \A j, k \in DOMAIN rd[p].items :
                 rd[p].items[j].id = rd[p].items[k].id => j = k)
  /\ [][\A p \in Procs :
          (pc[p] = "idle" /\ pc'[p] = "lc_query")
            => rd'[p].count = Cardinality(Children(rd'[p].id))]_vars

ChildrenListedDirectOnlyWitness ==
  \E p \in Procs :
    /\ pc[p] = "done" /\ rd[p].op = "listChildren" /\ rd[p].items # <<>>
    /\ \E g \in DOMAIN comments :
         /\ comments[g].parentCommentId \in DOMAIN comments
         /\ comments[comments[g].parentCommentId].parentCommentId = rd[p].id

\* C19: in list comments for post every returned comment carries at most 2
\* comments when includeChildren is set and none when it is not, and every
\* carried comment has the returned comment as its parent.
PreviewAtMostTwoDirect ==
  \A p \in Procs :
    (pc[p] = "done" /\ rd[p].op = "postComments" /\ rd[p].status = 200) =>
      \A k \in DOMAIN rd[p].items :
        LET it == rd[p].items[k] IN
          /\ Len(it.childComments) <= (IF rd[p].includeChildren THEN 2 ELSE 0)
          /\ \A j \in DOMAIN it.childComments :
               comments[it.childComments[j]].parentCommentId = it.id

PreviewAtMostTwoDirectWitness ==
  \E p \in Procs :
    /\ pc[p] = "done" /\ rd[p].op = "postComments" /\ rd[p].includeChildren
    /\ \E k \in DOMAIN rd[p].items :
         /\ Len(rd[p].items[k].childComments) = 2
         /\ Cardinality(Children(rd[p].items[k].id)) = 3

\* C20: get post answers, for a post that exists, with that one post and
\* isUpvoted true exactly when a post_upvote row of (viewer, post) exists (false
\* without viewer), with 404 for a post that does not exist, and changes no row.
GetPostContract ==
  /\ [](\A p \in Procs :
          (pc[p] = "done" /\ rd[p].op = "getPost") =>
            IF rd[p].id \in DOMAIN posts
            THEN /\ rd[p].status = 200
                 /\ rd[p].items = <<rd[p].id>>
                 /\ rd[p].isUpvoted <=>
                      \E r \in postUpvotes :
                        r.userId = rd[p].viewer /\ r.postId = rd[p].id
                 /\ rd[p].viewer = NoUser => ~rd[p].isUpvoted
            ELSE rd[p].status = 404 /\ rd[p].items = <<>>)
  /\ [][\A p \in Procs :
          (rd[p].op = "none" /\ rd'[p].op = "getPost") => UNCHANGED <<db, serial>>]_vars

GetPostContractWitness ==
  \E p \in Procs :
    /\ pc[p] = "done" /\ rd[p].op = "getPost" /\ rd[p].status = 200
    /\ rd[p].viewer # NoUser /\ ~rd[p].isUpvoted
    /\ \E r \in postUpvotes : r.postId = rd[p].id

\* C21: the points of every post and of every comment are never negative.
PointsNeverNegative ==
  /\ \A i \in DOMAIN posts : posts[i].points >= 0
  /\ \A c \in DOMAIN comments : comments[c].points >= 0

\* C22: the commit of a toggle of (user, entity) changes the entity's points and
\* the upvote rows of (user, entity) only: every other post and comment, every
\* commentCount, every other field of every comment and the upvote rows of every
\* other pair stay as they are; no earlier step of the toggle changes a table.
ToggleFrame ==
  [][\A p \in Procs :
       (IsToggle(p) /\ InTx(p) /\ pc'[p] # pc[p]) =>
         IF pc[p] \in {"pu_commit", "cu_commit"}
         THEN LET onPost == req[p].op = "postUpvote"
                  id == req[p].id
                  u == req[p].user
                  OthersP(S) == {r \in S : ~(onPost /\ r.userId = u /\ r.postId = id)}
                  OthersC(S) == {r \in S : ~(~onPost /\ r.userId = u /\ r.commentId = id)}
              IN /\ DOMAIN posts' = DOMAIN posts
                 /\ DOMAIN comments' = DOMAIN comments
                 /\ \A i \in DOMAIN posts :
                      /\ posts'[i].commentCount = posts[i].commentCount
                      /\ (~onPost \/ i # id) => posts'[i] = posts[i]
                 /\ \A c \in DOMAIN comments :
                      /\ [comments'[c] EXCEPT !.points = comments[c].points] = comments[c]
                      /\ (onPost \/ c # id) => comments'[c] = comments[c]
                 /\ OthersP(postUpvotes') = OthersP(postUpvotes)
                 /\ OthersC(commentUpvotes') = OthersC(commentUpvotes)
         ELSE UNCHANGED db]_vars

ToggleFrameWitness ==
  \E p \in Procs :
    /\ pc[p] = "done" /\ req[p].op = "postUpvote" /\ resp[p].status = 200
    /\ ~resp[p].isUpvoted
    /\ posts[req[p].id].commentCount > 0
    /\ \E r \in postUpvotes : r.postId = req[p].id /\ r.userId # req[p].user

====
